---- MODULE Spec2Model ----
(***************************************************************************)
(* Model of libbitcoin's message::inventory_vector                         *)
(* (src/message/inventory_vector.cpp): a (type_, hash_) pair with its      *)
(* 36-byte wire codec.  One inventory_vector object is tracked through     *)
(* construction, the setters, reset(), from_data() and to_data().          *)
(***************************************************************************)
EXTENDS Integers, Sequences, FiniteSets

(* ----------------------------- bounds ---------------------------------- *)

\* Largest number of bytes that follow a complete 36-byte item in a buffer.
MaxExtra == 1

\* Protocol versions passed to the entry points are 0..MaxVersion.
MaxVersion == 1

(* ------------------------ types and constants -------------------------- *)

\* Number of bytes of a hash_digest.
hash_size == 32

\* inventory_vector::type_id
type_id == {"error", "transaction", "block", "filtered_block",
            "compact_block", "none"}

\* The all-zero hash_digest.
null_hash == [i \in 1..hash_size |-> 0]

Versions == 0..MaxVersion

\* Hash values the model draws from: all zero, all 0x11, only the last byte
\* set, only the first byte set.
Hashes == { null_hash,
            [i \in 1..hash_size |-> 17],
            [i \in 1..hash_size |-> IF i = hash_size THEN 1 ELSE 0],
            [i \in 1..hash_size |-> IF i = 1 THEN 128 ELSE 0] }

\* A uint32_t, held as its two 16-bit halves (value = hi * 65536 + lo).
uint32_t(hi, lo) == [hi |-> hi, lo |-> lo]

\* 32-bit tag values the model draws from: the four defined codes 0, 1, 2, 4,
\* the foreign codes 3 and 5, 0x01000000 (whose only non-zero byte is the
\* last one) and 0xFFFFFFFF.
Codes == { uint32_t(0, 0), uint32_t(0, 1), uint32_t(0, 2), uint32_t(0, 3),
           uint32_t(0, 4), uint32_t(0, 5), uint32_t(256, 0),
           uint32_t(65535, 65535) }

\* Values an unread (uninitialized) byte of a short read may hold.
JunkBytes == {0, 205}

(* ------------------------- byte-level helpers -------------------------- *)

\* The uint32_t held in four bytes, least significant byte first.
from_little_endian(bytes) ==
    uint32_t(bytes[3] + 256 * bytes[4], bytes[1] + 256 * bytes[2])

\* The four bytes of a uint32_t, least significant byte first.
to_little_endian(value) ==
    << value.lo % 256, value.lo \div 256, value.hi % 256, value.hi \div 256 >>

(* ------------------------------ reader --------------------------------- *)

\* A byte source over a buffer: position, and the stream state (ok).
data_source(data) == [buf |-> data, pos |-> 0, ok |-> TRUE]

\* Read n bytes.  A source that is already failed, or that holds fewer than
\* n unread bytes, fails; the bytes it could not supply hold junk.
read_bytes(source, n, junk) ==
    LET avail == Len(source.buf) - source.pos
    IN IF source.ok /\ avail >= n
       THEN [bytes  |-> SubSeq(source.buf, source.pos + 1, source.pos + n),
             source |-> [source EXCEPT !.pos = source.pos + n]]
       ELSE LET got == IF source.ok
                       THEN SubSeq(source.buf, source.pos + 1, Len(source.buf))
                       ELSE << >>
            IN [bytes  |-> got \o [i \in 1..(n - Len(got)) |-> junk],
                source |-> [source EXCEPT !.pos = Len(source.buf),
                                          !.ok = FALSE]]

read_4_bytes_little_endian(source, junk) ==
    LET r == read_bytes(source, 4, junk)
    IN [value |-> from_little_endian(r.bytes), source |-> r.source]

read_hash(source, junk) == read_bytes(source, hash_size, junk)

(* ------------------------------ writer --------------------------------- *)

write_4_bytes_little_endian(sink, value) == sink \o to_little_endian(value)

write_hash(sink, hash) == sink \o hash

(* -------------------------- inventory_vector --------------------------- *)

\* to_number with the codes of block and compact_block exchanged.
to_number_swapped(inventory_type) ==
    CASE inventory_type = "compact_block" -> uint32_t(0, 2)
      [] inventory_type = "block" -> uint32_t(0, 4)
      [] inventory_type = "transaction" -> uint32_t(0, 1)
      [] OTHER -> uint32_t(0, 0)

\* to_number with an outbound code 3 for filtered_block.
to_number_filtered(inventory_type) ==
    CASE inventory_type = "compact_block" -> uint32_t(0, 4)
      [] inventory_type = "filtered_block" -> uint32_t(0, 3)
      [] inventory_type = "block" -> uint32_t(0, 2)
      [] inventory_type = "transaction" -> uint32_t(0, 1)
      [] OTHER -> uint32_t(0, 0)

to_number(inventory_type) ==
    CASE inventory_type = "compact_block" -> uint32_t(0, 4)
      [] inventory_type = "block" -> uint32_t(0, 2)
      [] inventory_type = "transaction" -> uint32_t(0, 1)
      [] OTHER -> uint32_t(0, 0)

\* to_type whose default arm returns error.
to_type_default_error(value) ==
    CASE value = uint32_t(0, 0) -> "error"
      [] value = uint32_t(0, 1) -> "transaction"
      [] value = uint32_t(0, 2) -> "block"
      [] value = uint32_t(0, 4) -> "compact_block"
      [] OTHER -> "error"

\* to_type with an inbound arm 3 -> filtered_block.
to_type_filtered(value) ==
    CASE value = uint32_t(0, 0) -> "error"
      [] value = uint32_t(0, 1) -> "transaction"
      [] value = uint32_t(0, 2) -> "block"
      [] value = uint32_t(0, 3) -> "filtered_block"
      [] value = uint32_t(0, 4) -> "compact_block"
      [] OTHER -> "none"

to_type(value) ==
    CASE value = uint32_t(0, 0) -> "error"
      [] value = uint32_t(0, 1) -> "transaction"
      [] value = uint32_t(0, 2) -> "block"
      [] value = uint32_t(0, 4) -> "compact_block"
      [] OTHER -> "none"

\* An object is the record of its two fields.
inventory_vector(type, hash) == [type_ |-> type, hash_ |-> hash]

default_inventory_vector == inventory_vector("error", null_hash)

\* is_valid with a conjunction in place of the disjunction.
is_valid_and(self) == (self.type_ # "error") /\ (self.hash_ # null_hash)

\* is_valid that looks at the type only.
is_valid_type_only(self) == self.type_ # "error"

is_valid(self) == (self.type_ # "error") \/ (self.hash_ # null_hash)

reset(self) == [self EXCEPT !.type_ = "error",
                            !.hash_ = [i \in 1..hash_size |-> 0]]

\* from_data without the reset() on failure.
from_data_no_final_reset(self, version, source, junk) ==
    LET s0 == reset(self)
        r1 == read_4_bytes_little_endian(source, junk)
        s1 == [s0 EXCEPT !.type_ = to_type(r1.value)]
        r2 == read_hash(r1.source, junk)
        s2 == [s1 EXCEPT !.hash_ = r2.bytes]
        result == r2.source.ok
    IN [result |-> result, self |-> s2]

\* from_data that returns as soon as a read fails, without any reset().
from_data_early_return(self, version, source, junk) ==
    LET r1 == read_4_bytes_little_endian(source, junk)
        r2 == read_hash(r1.source, junk)
    IN IF ~r1.source.ok \/ ~r2.source.ok
       THEN [result |-> FALSE, self |-> self]
       ELSE [result |-> TRUE,
             self   |-> [self EXCEPT !.type_ = to_type(r1.value),
                                     !.hash_ = r2.bytes]]

\* from_data(version, reader&): the returned flag and the object afterwards.
from_data(self, version, source, junk) ==
    LET s0 == reset(self)
        r1 == read_4_bytes_little_endian(source, junk)
        s1 == [s0 EXCEPT !.type_ = to_type(r1.value)]
        r2 == read_hash(r1.source, junk)
        s2 == [s1 EXCEPT !.hash_ = r2.bytes]
        result == r2.source.ok
    IN [result |-> result,
        self   |-> IF ~result THEN reset(s2) ELSE s2]

\* to_data that writes the compact_block code only from version 1 on.
to_data_versioned(self, version) ==
    LET raw_type == IF version < 1 /\ self.type_ = "compact_block"
                    THEN uint32_t(0, 0)
                    ELSE to_number(self.type_)
    IN write_hash(write_4_bytes_little_endian(<< >>, raw_type), self.hash_)

\* to_data(version, writer&): the bytes appended to an empty sink.
to_data(self, version) ==
    LET raw_type == to_number(self.type_)
    IN write_hash(write_4_bytes_little_endian(<< >>, raw_type), self.hash_)

satoshi_fixed_size(version) == hash_size + 4

serialized_size(self, version) == satoshi_fixed_size(version)

\* is_block_type without the filtered_block arm.
is_block_type_no_filtered(self) ==
    \/ self.type_ = "block"
    \/ self.type_ = "compact_block"

is_block_type(self) ==
    \/ self.type_ = "block"
    \/ self.type_ = "compact_block"
    \/ self.type_ = "filtered_block"

is_transaction_type(self) == self.type_ = "transaction"

equals(self, other) ==
    (self.hash_ = other.hash_) /\ (self.type_ = other.type_)

(* ------------------------------ inputs --------------------------------- *)

\* A well-formed 36-byte item followed by k trailing bytes.
Wire(code, hash, k) ==
    to_little_endian(code) \o hash \o [i \in 1..k |-> 170]

FullBuffers ==
    { Wire(c, h, k) : c \in Codes, h \in Hashes, k \in 0..MaxExtra }

\* Every proper prefix (length 0..35) of two well-formed items.
TruncatedBuffers ==
    { SubSeq(b, 1, n) :
        b \in { Wire(uint32_t(0, 1), [i \in 1..hash_size |-> 17], 0),
                Wire(uint32_t(0, 0), null_hash, 0) },
        n \in 0..(hash_size + 3) }

Buffers == FullBuffers \cup TruncatedBuffers

\* The values the bytes a short read leaves unread may take; a buffer that
\* holds a whole item leaves none, so one value stands for them all.
UnreadBytes(d) == IF Len(d) < hash_size + 4 THEN JunkBytes ELSE {0}

(* ------------------------------- state --------------------------------- *)

VARIABLES
    type_,      \* the object's type_ field
    hash_,      \* the object's hash_ field
    op,         \* the member function called last
    data,       \* the buffer read by from_data or returned by to_data
    result,     \* the value returned by the last from_data
    prev_type,  \* type_ before the last call
    round_trip  \* the last call was a from_data of the buffer that the call
                \* before it, a to_data, returned

vars == <<type_, hash_, op, data, result, prev_type, round_trip>>

self == inventory_vector(type_, hash_)

\* State after inventory_vector().
Init ==
    /\ type_ = default_inventory_vector.type_
    /\ hash_ = default_inventory_vector.hash_
    /\ op = "init"
    /\ data = << >>
    /\ result = FALSE
    /\ prev_type = "error"
    /\ round_trip = FALSE

\* Bookkeeping shared by the calls that take no buffer.
NoBuffer(name) ==
    /\ op' = name
    /\ data' = << >>
    /\ result' = FALSE
    /\ prev_type' = type_
    /\ round_trip' = FALSE

\* The object is replaced by inventory_vector(type, hash).
Construct ==
    \E type \in type_id, hash \in Hashes :
        /\ type_' = inventory_vector(type, hash).type_
        /\ hash_' = inventory_vector(type, hash).hash_
        /\ NoBuffer("construct")

SetType ==
    \E value \in type_id :
        /\ type_' = value
        /\ UNCHANGED hash_
        /\ NoBuffer("set_type")

SetHash ==
    \E value \in Hashes :
        /\ hash_' = value
        /\ UNCHANGED type_
        /\ NoBuffer("set_hash")

Reset ==
    /\ type_' = reset(self).type_
    /\ hash_' = reset(self).hash_
    /\ NoBuffer("reset")

\* from_data(version, data): the buffer is one of Buffers or the buffer the
\* previous to_data returned.
FromData ==
    \E v \in Versions, d \in Buffers \cup {data} : \E junk \in UnreadBytes(d) :
        LET r == from_data(self, v, data_source(d), junk)
        IN /\ type_' = r.self.type_
           /\ hash_' = r.self.hash_
           /\ result' = r.result
           /\ op' = "from_data"
           /\ data' = d
           /\ prev_type' = type_
           /\ round_trip' = (op = "to_data" /\ d = data)

\* to_data(version) const.
ToData ==
    \E v \in Versions :
        /\ data' = to_data(self, v)
        /\ op' = "to_data"
        /\ result' = FALSE
        /\ prev_type' = type_
        /\ round_trip' = FALSE
        /\ UNCHANGED <<type_, hash_>>

Next ==
    \/ Construct
    \/ SetType
    \/ SetHash
    \/ Reset
    \/ FromData
    \/ ToData

Spec == Init /\ [][Next]_vars

TypeOK ==
    /\ type_ \in type_id
    /\ hash_ \in [1..hash_size -> 0..255]
    /\ op \in {"init", "construct", "set_type", "set_hash", "reset",
               "from_data", "to_data"}
    /\ result \in BOOLEAN
    /\ round_trip \in BOOLEAN

(* ----------------------------- properties ------------------------------ *)

\* The kinds that have a wire code of their own.
CodedKinds == {"error", "transaction", "block", "compact_block"}

\* The 32-byte hash of 0x11 bytes.
Hash11 == [i \in 1..32 |-> 17]

\* The object after the step.
self_next == inventory_vector(type_', hash_')

\* C1: Round-trip.  When to_data has just encoded an item whose kind has a
\* wire code of its own (error, transaction, block, compact_block) and
\* from_data then decodes the returned bytes, from_data returns true and the
\* decoded item is equal (operator==) to the encoded one.
C1_RoundTrip ==
    [][ ( /\ op = "to_data"
          /\ type_ \in CodedKinds
          /\ op' = "from_data"
          /\ data' = data )
        => (result' /\ equals(self_next, self)) ]_vars

C1_Witness ==
    /\ op = "from_data"
    /\ round_trip
    /\ result
    /\ prev_type = "block"
    /\ type_ = "block"
    /\ hash_ = Hash11
    /\ data = <<2, 0, 0, 0>> \o Hash11

\* C2: Truncation failure.  A from_data on a buffer of fewer than 36 bytes
\* returns false and leaves the item equal to the default item (error,
\* all-zero hash), whatever the item held before.
C2_Truncation ==
    (op = "from_data" /\ Len(data) < 36)
        => (~result /\ type_ = "error" /\ hash_ = [i \in 1..32 |-> 0])

C2_Witness ==
    /\ op = "from_data"
    /\ Len(data) = 35
    /\ SubSeq(data, 1, 4) = <<1, 0, 0, 0>>
    /\ prev_type = "filtered_block"
    /\ ~result

\* C3: No partial success.  Every from_data ends in one of two outcomes that
\* the input bytes alone decide: with at least 36 bytes it returns true and
\* the item is (kind of the little-endian tag in bytes 1..4, bytes 5..36);
\* with fewer it returns false and the item is the default item.
C3_NoPartialSuccess ==
    op = "from_data" =>
        \/ /\ Len(data) >= 36
           /\ result
           /\ type_ = ( LET tag == data[1] + 256 * data[2]
                            top == data[3] + 256 * data[4]
                        IN IF top # 0 THEN "none"
                           ELSE IF tag = 0 THEN "error"
                           ELSE IF tag = 1 THEN "transaction"
                           ELSE IF tag = 2 THEN "block"
                           ELSE IF tag = 4 THEN "compact_block"
                           ELSE "none" )
           /\ hash_ = [i \in 1..32 |-> data[i + 4]]
        \/ /\ Len(data) < 36
           /\ ~result
           /\ type_ = "error"
           /\ \A i \in 1..32 : hash_[i] = 0

C3_Witness ==
    /\ op = "from_data"
    /\ result
    /\ prev_type = "filtered_block"
    /\ type_ = "none"
    /\ hash_ = Hash11
    /\ Len(data) > 36

\* C4: Decode kind mapping is total.  On a buffer of at least 36 bytes,
\* from_data returns true, the hash is bytes 5..36, and the tag bytes
\* 00 00 00 00, 01 00 00 00, 02 00 00 00, 04 00 00 00 give error,
\* transaction, block, compact_block; every other tag gives none.
C4_KindMappingTotal ==
    (op = "from_data" /\ Len(data) >= 36) =>
        LET tag == SubSeq(data, 1, 4)
        IN /\ result
           /\ hash_ = SubSeq(data, 5, 36)
           /\ (tag = <<0, 0, 0, 0>> => type_ = "error")
           /\ (tag = <<1, 0, 0, 0>> => type_ = "transaction")
           /\ (tag = <<2, 0, 0, 0>> => type_ = "block")
           /\ (tag = <<4, 0, 0, 0>> => type_ = "compact_block")
           /\ (tag \notin { <<0, 0, 0, 0>>, <<1, 0, 0, 0>>,
                            <<2, 0, 0, 0>>, <<4, 0, 0, 0>> }
                  => type_ = "none")

C4_Witness ==
    /\ op = "from_data"
    /\ Len(data) = 36
    /\ SubSeq(data, 1, 4) = <<255, 255, 255, 255>>
    /\ result
    /\ type_ = "none"
    /\ hash_ # null_hash

\* C5: Encode layout and fixed size.  to_data returns exactly 36 bytes, the
\* value of serialized_size and satoshi_fixed_size: bytes 1..4 are the
\* little-endian code (transaction 1, block 2, compact_block 4, every other
\* kind 0) and bytes 5..36 are the hash; (transaction, 32 bytes of 0x11)
\* encodes to 01 00 00 00 followed by thirty-two 0x11 bytes.
C5_EncodeLayout ==
    op = "to_data" =>
        /\ Len(data) = 36
        /\ \A v \in Versions :
              serialized_size(self, v) = Len(data) /\ satoshi_fixed_size(v) = 36
        /\ SubSeq(data, 1, 4) =
              ( IF type_ = "transaction" THEN <<1, 0, 0, 0>>
                ELSE IF type_ = "block" THEN <<2, 0, 0, 0>>
                ELSE IF type_ = "compact_block" THEN <<4, 0, 0, 0>>
                ELSE <<0, 0, 0, 0>> )
        /\ SubSeq(data, 5, 36) = hash_
        /\ ( (type_ = "transaction" /\ hash_ = Hash11)
               => data = <<1, 0, 0, 0>> \o Hash11 )

C5_Witness ==
    /\ op = "to_data"
    /\ type_ = "filtered_block"
    /\ hash_ = Hash11
    /\ Len(data) = 36

\* C6: Validity.  is_valid() is false exactly when the item is the default
\* value (error with 32 zero bytes); in particular it is false right after
\* default construction and after reset().
C6_Validity ==
    /\ is_valid(self) <=> ~(type_ = "error" /\ \A i \in 1..32 : hash_[i] = 0)
    /\ (op \in {"init", "reset"} => ~is_valid(self))

C6_Witness ==
    /\ op = "set_type"
    /\ type_ = "error"
    /\ prev_type = "transaction"
    /\ hash_ # null_hash
    /\ is_valid(self)

\* C7: Version independence.  Whatever version is passed, the size functions
\* return 36, to_data returns the bytes that the call made (with any one of
\* the versions) returned, and from_data on the bytes the call made read
\* returns the same flag and leaves the same item.
C7_VersionIndependence ==
    /\ \A v \in Versions :
          satoshi_fixed_size(v) = 36 /\ serialized_size(self, v) = 36
    /\ (op = "to_data" => \A v \in Versions : to_data(self, v) = data)
    /\ (op = "from_data" =>
          \A v \in Versions :
              LET r == from_data(default_inventory_vector, v,
                                 data_source(data), 0)
              IN r.result = result /\ equals(r.self, self))

C7_Witness ==
    /\ op = "to_data"
    /\ Cardinality(Versions) > 1
    /\ type_ = "compact_block"
    /\ data = <<4, 0, 0, 0>> \o Hash11

\* C8: Classification.  is_block_type() is true exactly for block,
\* compact_block and filtered_block, is_transaction_type() exactly for
\* transaction; never both, and neither depends on the hash.
C8_Classification ==
    /\ is_block_type(self)
          <=> type_ \in {"block", "compact_block", "filtered_block"}
    /\ is_transaction_type(self) <=> type_ = "transaction"
    /\ ~(is_block_type(self) /\ is_transaction_type(self))
    /\ \A h \in Hashes :
          /\ is_block_type(inventory_vector(type_, h)) = is_block_type(self)
          /\ is_transaction_type(inventory_vector(type_, h))
                = is_transaction_type(self)

C8_Witness ==
    /\ type_ = "filtered_block"
    /\ hash_ # null_hash
    /\ is_block_type(self)
    /\ ~is_transaction_type(self)

\* C9: Validity after decode.  After from_data, is_valid() is true exactly
\* when from_data returned true and the first 36 input bytes are not all
\* zero.
C9_ValidAfterDecode ==
    op = "from_data" =>
        ( is_valid(self) <=> (result /\ \E i \in 1..36 : data[i] # 0) )

C9_Witness ==
    /\ op = "from_data"
    /\ result
    /\ \A i \in 1..36 : data[i] = 0
    /\ ~is_valid(self)

\* C10: Decoding never produces filtered_block.  The kind after from_data is
\* one of error, transaction, block, compact_block, none; and decoding the
\* bytes to_data has just returned for an item of kind filtered_block or none
\* returns true and gives kind error with the same hash.
C10_NeverFilteredBlock ==
    [][ /\ ( op' = "from_data" =>
               type_' \in {"error", "transaction", "block", "compact_block",
                           "none"} )
        /\ ( ( /\ op = "to_data"
               /\ type_ \in {"filtered_block", "none"}
               /\ op' = "from_data"
               /\ data' = data )
             => (result' /\ type_' = "error" /\ hash_' = hash_) ) ]_vars

C10_Witness ==
    /\ op = "from_data"
    /\ round_trip
    /\ prev_type = "filtered_block"
    /\ result
    /\ type_ = "error"
    /\ hash_ = Hash11

====
